---- MODULE Spec2Model ----
(***************************************************************************)
(* CodeMentor backend: token authentication, role gates, per-handler       *)
(* ownership checks and the record stores they guard.                      *)
(*                                                                         *)
(* A request is two steps: verifyToken resolves the identity and attaches  *)
(* a copy of it (req.user) to the request, then the route handler runs on  *)
(* that copy.  Nothing bounds the number of requests in flight nor the     *)
(* time between the two steps, so a copy, once attached, may reach any     *)
(* handler at any later time: `reqs` holds the copies attached so far.     *)
(* Every step publishes in `res` the response it sent (status 0: none).    *)
(***************************************************************************)
EXTENDS Integers, Sequences, FiniteSets, Bags, TLC

VARIABLES
  users,        \* User collection: id -> [role, email]
  issued,       \* tokens signed so far by register / login
  now,          \* wall clock, in days
  loggedOut,    \* issued tokens whose cookie a logout has cleared
  reqs,         \* req.user of the requests that have passed verifyToken
  res,          \* outcome of the last step
  sessions,     \* InterviewSession collection
  questions,    \* InterviewQuestion collection
  submissions,  \* Submission collection
  problems,     \* Problem collection
  tags,         \* ProblemTag collection
  stats,        \* UserStats collection
  solved,       \* per user: the incrementProblemsSolved calls made since the record was absent
  calls         \* handlers suspended between their read of a store and their write

vars == <<users, issued, now, loggedOut, reqs, res, sessions, questions,
          submissions, problems, tags, stats, solved, calls>>

authVars  == <<issued, now, loggedOut>>
storeVars == <<sessions, questions, submissions, problems, tags, stats, solved, calls>>

----------------------------------------------------------------------------
(* Bounds *)

MaxUsers == 4
MaxTime == 31
MaxTokens == 2
MaxRecords == 1
MaxTags == 2
MaxSolved == 8
MaxCalls == 2
MaxRaceSolved == 2
MantissaBits == 7

(* Program constants *)

TokenLifetime == 30

UserIds == 1..MaxUsers
Roles == {"user", "admin", "interviewer", "candidate"}
Emails == {"a@x", "b@x", "c@x", "d@x"}

----------------------------------------------------------------------------
(* Users *)

NoUser == [role |-> "none", email |-> ""]
DeletedUser == [role |-> "deleted", email |-> ""]

\* User.findById(id): the document, or null
UserExists(id) == id \in UserIds /\ users[id].role \in Roles

\* ObjectId.toString() / the string id of req.user.id, and Document.toString(),
\* which prints the document instead of its id
IdString(id) == <<"id", id>>
DocString(id) == <<"doc", id>>

----------------------------------------------------------------------------
(* Tokens *)

NoToken == [kind |-> "none", id |-> 0, iat |-> 0, exp |-> 0]
ForgedToken == [kind |-> "forged", id |-> 1, iat |-> 0, exp |-> 1000]

\* jwt.sign({ id }, secret, { expiresIn: "30d" })
jwtSign(id) == [kind |-> "jwt", id |-> id, iat |-> now, exp |-> now + TokenLifetime]

\* a verification that checks the signature and not the expiry
jwtVerifySignatureOnly(token) == token.kind = "jwt"

\* jwt.verify(token, secret): throws unless the signature is ours and exp lies ahead
jwtVerify(token) == token.kind = "jwt" /\ now < token.exp

\* req.user of a request, and what stands for it where there is none
NoIdentity == [id |-> 0, role |-> ""]

\* The outcome of a step: the handler, the HTTP status (0: no response, the
\* request went on to the next stage), req.user, the id the request addressed,
\* the body field or token that the request carried, the ids of the documents
\* in the response body
NoRes == [op |-> "", status |-> 0, user |-> NoIdentity, id |-> 0, arg |-> "",
          tok |-> NoToken, data |-> {}]

Reply(op, status, ru, id, arg, data) ==
  res' = [op |-> op, status |-> status, user |-> ru, id |-> id, arg |-> arg,
          tok |-> NoToken, data |-> data]

Respond(op, status, ru, id) == Reply(op, status, ru, id, "", {})

RespondTok(op, status, ru, tok) ==
  res' = [op |-> op, status |-> status, user |-> ru, id |-> 0, arg |-> "",
          tok |-> tok, data |-> {}]

\* where verifyToken took the token from
Channel(c, h) == IF c.kind # "none" THEN "cookie" ELSE IF h.kind # "none" THEN "header" ELSE ""

----------------------------------------------------------------------------
(* Identity resolution *)

\* a middleware that reads the cookie alone
PresentedTokenCookieOnly(c, h) == c

\* req.cookies.token || req.header("Authorization")?.replace("Bearer ", "")
PresentedToken(c, h) == IF c.kind # "none" THEN c ELSE h

\* a middleware that trusts the decoded id without looking the user up
verifyTokenTrusting(c, h) ==
  LET token == PresentedToken(c, h) IN
  /\ IF token.kind = "none" \/ ~jwtVerify(token)
       THEN /\ res' = [NoRes EXCEPT !.op = "verifyToken", !.status = 401,
                                     !.arg = Channel(c, h), !.tok = token,
                                     !.data = {c, h}]
            /\ reqs' = reqs
       ELSE LET user == [id |-> token.id, role |-> users[token.id].role] IN
            /\ reqs' = reqs \cup {user}
            /\ res' = [NoRes EXCEPT !.op = "verifyToken", !.user = user,
                                     !.arg = Channel(c, h), !.tok = token,
                                     !.data = {c, h}]
  /\ UNCHANGED <<users, authVars, storeVars>>

verifyToken(c, h) ==
  LET token == PresentedToken(c, h) IN
  /\ IF token.kind = "none" \/ ~jwtVerify(token) \/ ~UserExists(token.id)
       THEN /\ res' = [NoRes EXCEPT !.op = "verifyToken", !.status = 401,
                                     !.arg = Channel(c, h), !.tok = token,
                                     !.data = {c, h}]
            /\ reqs' = reqs
       ELSE LET user == [id |-> token.id, role |-> users[token.id].role] IN
            /\ reqs' = reqs \cup {user}
            /\ res' = [NoRes EXCEPT !.op = "verifyToken", !.user = user,
                                     !.arg = Channel(c, h), !.tok = token,
                                     !.data = {c, h}]
  /\ UNCHANGED <<users, authVars, storeVars>>

\* a handler runs on the req.user of a request that passed verifyToken
Take(ru) == ru \in reqs /\ reqs' = reqs

----------------------------------------------------------------------------
(* User controller *)

\* Tokens are signed at the epoch, while the model's budget of tokens lasts: the
\* handlers read the clock only to tell a token's age.
CanIssue == now = 0 /\ Cardinality(issued) < MaxTokens

\* _id of the next document: ids are never reused, a deleted user keeps its slot
FreshUserId == CHOOSE id \in UserIds : users[id].role = "none"
                 /\ \A j \in UserIds : j < id => users[j].role # "none"

\* register: body { username, email, password }; anything else in the body
\* (bodyRole) is not read
register(email, bodyRole) ==
  /\ CanIssue
  /\ IF \E u \in UserIds : UserExists(u) /\ users[u].email = email
       THEN /\ Respond("register", 400, NoIdentity, 0)
            /\ UNCHANGED <<users, issued>>
       ELSE /\ \E id \in UserIds : users[id].role = "none"
            /\ users' = [users EXCEPT ![FreshUserId] = [role |-> "user", email |-> email]]
            /\ issued' = issued \cup {jwtSign(FreshUserId)}
            /\ RespondTok("register", 201, [id |-> FreshUserId, role |-> "user"], jwtSign(FreshUserId))
  /\ UNCHANGED <<now, loggedOut, reqs, storeVars>>

\* login: body { email, password }; pwOk is bcrypt.compare's verdict
login(email, pwOk) ==
  /\ CanIssue
  /\ IF ~(\E u \in UserIds : UserExists(u) /\ users[u].email = email) \/ ~pwOk
       THEN /\ Respond("login", 401, NoIdentity, 0)
            /\ UNCHANGED issued
       ELSE LET u == CHOOSE u \in UserIds : UserExists(u) /\ users[u].email = email IN
            /\ issued' = issued \cup {jwtSign(u)}
            /\ RespondTok("login", 200, [id |-> u, role |-> users[u].role], jwtSign(u))
  /\ UNCHANGED <<users, now, loggedOut, reqs, storeVars>>

\* logout: overwrites the cookie of the browser that holds token c with an
\* expired empty one; the server keeps no record of it
logout(c) ==
  /\ loggedOut' = loggedOut \cup {c}
  /\ RespondTok("logout", 200, NoIdentity, c)
  /\ UNCHANGED <<users, issued, now, reqs, storeVars>>

getCurrentUser(ru) ==
  /\ Take(ru)
  /\ Respond("getCurrentUser", IF UserExists(ru.id) THEN 200 ELSE 404, ru, ru.id)
  /\ UNCHANGED <<users, authVars, storeVars>>

\* changePassword: pwOk is bcrypt.compare's verdict on currentPassword; the
\* save writes the password alone
changePassword(ru, pwOk) ==
  /\ Take(ru)
  /\ Respond("changePassword",
             IF ~UserExists(ru.id) THEN 500 ELSE IF ~pwOk THEN 401 ELSE 200, ru, ru.id)
  /\ UNCHANGED <<users, authVars, storeVars>>

getAllUsers(ru) ==
  /\ Take(ru)
  /\ IF ru.role # "admin"
       THEN Respond("getAllUsers", 403, ru, 0)
       ELSE Reply("getAllUsers", 200, ru, 0, "", {u \in UserIds : UserExists(u)})
  /\ UNCHANGED <<users, authVars, storeVars>>

getUserById(ru, id) ==
  /\ Take(ru)
  /\ Respond("getUserById",
             IF ru.role # "admin" THEN 403 ELSE IF ~UserExists(id) THEN 404 ELSE 200, ru, id)
  /\ UNCHANGED <<users, authVars, storeVars>>

\* a profile update that writes the whole body
updateProfileWithRole(ru, email, bodyRole) ==
  /\ Take(ru)
  /\ users' = IF UserExists(ru.id)
                THEN [users EXCEPT ![ru.id].email = email, ![ru.id].role = bodyRole]
                ELSE users
  /\ Reply("updateProfile", 200, ru, ru.id, bodyRole, {})
  /\ UNCHANGED <<authVars, storeVars>>

\* updateProfile: findByIdAndUpdate(req.user._id, { username, email }); a role
\* in the body is dropped
updateProfile(ru, email, bodyRole) ==
  /\ Take(ru)
  /\ users' = IF UserExists(ru.id)
                THEN [users EXCEPT ![ru.id].email = email]
                ELSE users
  /\ Reply("updateProfile", 200, ru, ru.id, bodyRole, {})
  /\ UNCHANGED <<authVars, storeVars>>

\* a role update that stores whatever role the body names
updateUserRoleUnvalidated(ru, id, role) ==
  /\ Take(ru)
  /\ IF ru.role # "admin"
       THEN Reply("updateUserRole", 403, ru, id, role, {}) /\ users' = users
       ELSE IF ~UserExists(id)
       THEN Reply("updateUserRole", 404, ru, id, role, {}) /\ users' = users
       ELSE /\ users' = [users EXCEPT ![id].role = role]
            /\ Reply("updateUserRole", 200, ru, id, role, {})
  /\ UNCHANGED <<authVars, storeVars>>

updateUserRole(ru, id, role) ==
  /\ Take(ru)
  /\ IF ru.role # "admin"
       THEN Reply("updateUserRole", 403, ru, id, role, {}) /\ users' = users
       ELSE IF role # "user" /\ role # "admin"
       THEN Reply("updateUserRole", 400, ru, id, role, {}) /\ users' = users
       ELSE IF ~UserExists(id)
       THEN Reply("updateUserRole", 404, ru, id, role, {}) /\ users' = users
       ELSE /\ users' = [users EXCEPT ![id].role = role]
            /\ Reply("updateUserRole", 200, ru, id, role, {})
  /\ UNCHANGED <<authVars, storeVars>>

\* req.params.id: the hexadecimal string in the request path.  An ObjectId has
\* two spellings that Mongoose casts to the same id, toString() gives the
\* lower-case one.
PathSpellings == {"lower", "upper"}
PathString(id, spelling) == IF spelling = "lower" THEN IdString(id) ELSE <<"ID", id>>

deleteUser(ru, id, spelling) ==
  /\ Take(ru)
  /\ IF ru.role # "admin"
       THEN Reply("deleteUser", 403, ru, id, spelling, {}) /\ users' = users
       ELSE IF PathString(id, spelling) = IdString(ru.id)
       THEN Reply("deleteUser", 400, ru, id, spelling, {}) /\ users' = users
       ELSE IF ~UserExists(id)
       THEN Reply("deleteUser", 404, ru, id, spelling, {}) /\ users' = users
       ELSE /\ users' = [users EXCEPT ![id] = DeletedUser]
            /\ Reply("deleteUser", 200, ru, id, spelling, {})
  /\ UNCHANGED <<authVars, storeVars>>

----------------------------------------------------------------------------
(* Record stores *)

\* A collection holds its documents under their _id; an id without a document
\* holds the collection's blank.  The owned collections share MaxRecords.
DocIds == 1..MaxRecords

Absent == "<absent>"       \* a body field the request does not carry

NoSession    == [userId |-> 0, status |-> "", startTime |-> 0, endTime |-> 0, feedback |-> ""]
NoQuestion   == [session_id |-> 0, submittedAnswer |-> "", feedback |-> ""]
NoSubmission == [userId |-> 0, problemId |-> 0, status |-> ""]
NoProblem    == [creatorId |-> 0, approved |-> FALSE, title |-> ""]

Docs(coll, blank) == {i \in DOMAIN coll : coll[i] # blank}

\* the _id a new document of the collection gets
FreshId(coll, blank) == CHOOSE i \in DOMAIN coll : coll[i] = blank
                          /\ \A j \in DOMAIN coll : j < i => coll[j] # blank

Stored ==
  [sessions    |-> Cardinality(Docs(sessions, NoSession)),
   questions   |-> Cardinality(Docs(questions, NoQuestion)),
   submissions |-> Cardinality(Docs(submissions, NoSubmission)),
   problems    |-> Cardinality(Docs(problems, NoProblem))]

\* No handler reads or writes two of these collections, so the records
\* explored at one time are records of one collection.
HasRoom(name) ==
  /\ Stored[name] < MaxRecords
  /\ \A other \in DOMAIN Stored \ {name} : Stored[other] = 0

Found(coll, blank, id) == id \in DOMAIN coll /\ coll[id] # blank

\* Mongoose populate(path): the referenced user document, null if it is gone
Populated(userId) == UserExists(userId)

----------------------------------------------------------------------------
(* Interview session controller *)

ElevatedRoles == {"admin", "interviewer"}
validInterviewTypes == {"Technical", "HR", "System Design", "Behavioral"}
validStatuses == {"Pending", "In Progress", "Completed"}

\* new Date(x): 0 stands for a field that is missing or empty, a negative
\* number for a string that is no date, a positive number for the instant
ValidDate(x) == x > 0

createInterviewSession(ru, body) ==
  /\ Take(ru)
  /\ IF body.interviewType = Absent \/ body.startTime = 0 \/ body.endTime = 0
       THEN Respond("createInterviewSession", 400, ru, 0) /\ sessions' = sessions
       ELSE IF ~ValidDate(body.startTime) \/ ~ValidDate(body.endTime)
       THEN Respond("createInterviewSession", 400, ru, 0) /\ sessions' = sessions
       ELSE IF body.startTime >= body.endTime
       THEN Respond("createInterviewSession", 400, ru, 0) /\ sessions' = sessions
       ELSE IF body.interviewType \notin validInterviewTypes
       THEN Respond("createInterviewSession", 400, ru, 0) /\ sessions' = sessions
       ELSE LET id == FreshId(sessions, NoSession) IN
            /\ HasRoom("sessions")
            /\ sessions' = [sessions EXCEPT ![id] =
                 [userId |-> IF body.userId # 0 THEN body.userId ELSE ru.id,
                  status |-> "Pending",
                  startTime |-> body.startTime,
                  endTime |-> body.endTime,
                  feedback |-> ""]]
            /\ Reply("createInterviewSession", 201, ru, id, "", {id})
  /\ UNCHANGED <<users, authVars, questions, submissions, problems, tags, stats, solved, calls>>

\* query: userId (0: no filter) and status (Absent: no filter)
getAllInterviewSessions(ru, qUserId, qStatus) ==
  /\ Take(ru)
  /\ IF ~UserExists(ru.id)
       THEN Respond("getAllInterviewSessions", 404, ru, 0)
       ELSE IF qStatus # Absent /\ qStatus \notin validStatuses
       THEN Respond("getAllInterviewSessions", 400, ru, 0)
       ELSE LET owner == IF users[ru.id].role \in ElevatedRoles THEN qUserId ELSE ru.id IN
            Reply("getAllInterviewSessions", 200, ru, 0, "",
                  {i \in Docs(sessions, NoSession) :
                     /\ owner # 0 => sessions[i].userId = owner
                     /\ qStatus # Absent => sessions[i].status = qStatus})
  /\ UNCHANGED <<users, authVars, storeVars>>

\* The session is read with populate("userId"): session.userId is the owner's
\* document (null when the owner is gone) and its toString() is not the id.
getInterviewSessionById(ru, id) ==
  /\ Take(ru)
  /\ IF ~Found(sessions, NoSession, id)
       THEN Respond("getInterviewSessionById", 404, ru, id)
       ELSE IF ~UserExists(ru.id)
       THEN Respond("getInterviewSessionById", 500, ru, id)
       ELSE IF users[ru.id].role \notin ElevatedRoles
       THEN IF ~Populated(sessions[id].userId)
              THEN Respond("getInterviewSessionById", 500, ru, id)
              ELSE IF DocString(sessions[id].userId) # IdString(ru.id)
              THEN Respond("getInterviewSessionById", 403, ru, id)
              ELSE Reply("getInterviewSessionById", 200, ru, id, "", {id})
       ELSE Reply("getInterviewSessionById", 200, ru, id, "", {id})
  /\ UNCHANGED <<users, authVars, storeVars>>

\* findByIdAndUpdate(id, req.body): every field the body carries is written
SessionUpdate(s, body) ==
  [userId    |-> IF body.userId # 0 THEN body.userId ELSE s.userId,
   status    |-> IF body.status # Absent THEN body.status ELSE s.status,
   startTime |-> IF body.startTime # 0 THEN body.startTime ELSE s.startTime,
   endTime   |-> IF body.endTime # 0 THEN body.endTime ELSE s.endTime,
   feedback  |-> IF body.feedback # Absent THEN body.feedback ELSE s.feedback]

\* The role gates: middleware between verifyToken and a handler. verifyAdmin
\* reads the role that verifyToken attached, checkRolePermission reads the
\* user again; status 0 is next().
verifyAdmin(ru) ==
  /\ Take(ru)
  /\ IF ru.role # "admin"
       THEN Respond("verifyAdmin", 403, ru, 0)
       ELSE Respond("verifyAdmin", 0, ru, 0)
  /\ UNCHANGED <<users, authVars, storeVars>>

\* the list that the route gave the gate, as the response record carries it
RoleListName(allowedRoles) == IF allowedRoles = {"admin"} THEN "admin" ELSE "admin,interviewer"

\* a gate that lets only the admin through, whatever list the route gave it
checkRolePermissionAdminOnly(ru, allowedRoles) ==
  /\ Take(ru)
  /\ IF ~UserExists(ru.id)
       THEN Reply("checkRolePermission", 404, ru, 0, RoleListName(allowedRoles), {})
       ELSE IF users[ru.id].role = "admin"
       THEN Reply("checkRolePermission", 0, ru, 0, RoleListName(allowedRoles), {})
       ELSE Reply("checkRolePermission", 403, ru, 0, RoleListName(allowedRoles), {})
  /\ UNCHANGED <<users, authVars, storeVars>>

checkRolePermission(ru, allowedRoles) ==
  /\ Take(ru)
  /\ IF ~UserExists(ru.id)
       THEN Reply("checkRolePermission", 404, ru, 0, RoleListName(allowedRoles), {})
       ELSE IF users[ru.id].role \in allowedRoles
       THEN Reply("checkRolePermission", 0, ru, 0, RoleListName(allowedRoles), {})
       ELSE Reply("checkRolePermission", 403, ru, 0, RoleListName(allowedRoles), {})
  /\ UNCHANGED <<users, authVars, storeVars>>

\* req.body.feedback is truthy
Truthy(str) == str # Absent /\ str # ""

\* The session schema's validators, which findByIdAndUpdate runs on the fields
\* of the body (runValidators: true): status is one of the schema's values.
SessionStatuses == {"Pending", "In Progress", "Completed"}

\* a schema that takes any string as a status
statusEnumAny(status) == TRUE

statusEnum(status) == status \in SessionStatuses

\* an update that applies the body before it reaches the feedback gate
updateInterviewSessionDenyAfterWrite(ru, id, body) ==
  /\ Take(ru)
  /\ IF ~Found(sessions, NoSession, id)
       THEN Reply("updateInterviewSession", 404, ru, id, body.feedback, {}) /\ sessions' = sessions
       ELSE IF ~UserExists(ru.id)
       THEN Reply("updateInterviewSession", 500, ru, id, body.feedback, {}) /\ sessions' = sessions
       ELSE IF /\ users[ru.id].role \notin ElevatedRoles
               /\ IdString(sessions[id].userId) # IdString(ru.id)
       THEN Reply("updateInterviewSession", 403, ru, id, body.feedback, {}) /\ sessions' = sessions
       ELSE /\ sessions' = [sessions EXCEPT ![id] = SessionUpdate(sessions[id], body)]
            /\ IF Truthy(body.feedback) /\ users[ru.id].role \notin ElevatedRoles
                 THEN Reply("updateInterviewSession", 403, ru, id, body.feedback, {})
                 ELSE Reply("updateInterviewSession", 200, ru, id, body.feedback, {id})
  /\ UNCHANGED <<users, authVars, questions, submissions, problems, tags, stats, solved, calls>>

updateInterviewSession(ru, id, body) ==
  /\ Take(ru)
  /\ IF ~Found(sessions, NoSession, id)
       THEN Reply("updateInterviewSession", 404, ru, id, body.feedback, {}) /\ sessions' = sessions
       ELSE IF ~UserExists(ru.id)
       THEN Reply("updateInterviewSession", 500, ru, id, body.feedback, {}) /\ sessions' = sessions
       ELSE IF /\ users[ru.id].role \notin ElevatedRoles
               /\ IdString(sessions[id].userId) # IdString(ru.id)
       THEN Reply("updateInterviewSession", 403, ru, id, body.feedback, {}) /\ sessions' = sessions
       ELSE IF Truthy(body.feedback) /\ users[ru.id].role \notin ElevatedRoles
       THEN Reply("updateInterviewSession", 403, ru, id, body.feedback, {}) /\ sessions' = sessions
       ELSE IF body.startTime # 0 /\ ~ValidDate(body.startTime)
       THEN Reply("updateInterviewSession", 400, ru, id, body.feedback, {}) /\ sessions' = sessions
       ELSE IF body.endTime # 0 /\ ~ValidDate(body.endTime)
       THEN Reply("updateInterviewSession", 400, ru, id, body.feedback, {}) /\ sessions' = sessions
       ELSE IF body.startTime # 0 /\ body.endTime # 0 /\ body.startTime >= body.endTime
       THEN Reply("updateInterviewSession", 400, ru, id, body.feedback, {}) /\ sessions' = sessions
       ELSE IF body.status # Absent /\ ~statusEnum(body.status)
       THEN Reply("updateInterviewSession", 500, ru, id, body.feedback, {}) /\ sessions' = sessions
       ELSE /\ sessions' = [sessions EXCEPT ![id] = SessionUpdate(sessions[id], body)]
            /\ Reply("updateInterviewSession", 200, ru, id, body.feedback, {id})
  /\ UNCHANGED <<users, authVars, questions, submissions, problems, tags, stats, solved, calls>>

\* a delete that also lets the owner through
deleteInterviewSessionByOwner(ru, id) ==
  /\ Take(ru)
  /\ IF ~Found(sessions, NoSession, id)
       THEN Respond("deleteInterviewSession", 404, ru, id) /\ sessions' = sessions
       ELSE IF ~UserExists(ru.id)
       THEN Respond("deleteInterviewSession", 500, ru, id) /\ sessions' = sessions
       ELSE IF users[ru.id].role # "admin" /\ sessions[id].userId # ru.id
       THEN Respond("deleteInterviewSession", 403, ru, id) /\ sessions' = sessions
       ELSE /\ sessions' = [sessions EXCEPT ![id] = NoSession]
            /\ Respond("deleteInterviewSession", 200, ru, id)
  /\ UNCHANGED <<users, authVars, questions, submissions, problems, tags, stats, solved, calls>>

deleteInterviewSession(ru, id) ==
  /\ Take(ru)
  /\ IF ~Found(sessions, NoSession, id)
       THEN Respond("deleteInterviewSession", 404, ru, id) /\ sessions' = sessions
       ELSE IF ~UserExists(ru.id)
       THEN Respond("deleteInterviewSession", 500, ru, id) /\ sessions' = sessions
       ELSE IF users[ru.id].role # "admin"
       THEN Respond("deleteInterviewSession", 403, ru, id) /\ sessions' = sessions
       ELSE /\ sessions' = [sessions EXCEPT ![id] = NoSession]
            /\ Respond("deleteInterviewSession", 200, ru, id)
  /\ UNCHANGED <<users, authVars, questions, submissions, problems, tags, stats, solved, calls>>

updateSessionStatus(ru, id, status) ==
  /\ Take(ru)
  /\ IF ~Truthy(status)
       THEN Reply("updateSessionStatus", 400, ru, id, status, {}) /\ sessions' = sessions
       ELSE IF status \notin validStatuses
       THEN Reply("updateSessionStatus", 400, ru, id, status, {}) /\ sessions' = sessions
       ELSE IF ~Found(sessions, NoSession, id)
       THEN Reply("updateSessionStatus", 404, ru, id, status, {}) /\ sessions' = sessions
       ELSE IF ~UserExists(ru.id)
       THEN Reply("updateSessionStatus", 500, ru, id, status, {}) /\ sessions' = sessions
       ELSE IF users[ru.id].role \notin ElevatedRoles
       THEN Reply("updateSessionStatus", 403, ru, id, status, {}) /\ sessions' = sessions
       ELSE /\ sessions' = [sessions EXCEPT ![id].status = status]
            /\ Reply("updateSessionStatus", 200, ru, id, status, {id})
  /\ UNCHANGED <<users, authVars, questions, submissions, problems, tags, stats, solved, calls>>

----------------------------------------------------------------------------
(* Interview question controller *)

\* a participant check that lets nobody through
checkSessionParticipantStrict(sessionId, userId) == FALSE

\* the check the placeholder's comment sketches: the session's user is the requester
checkSessionParticipantOwner(sessionId, userId) ==
  Found(sessions, NoSession, sessionId) /\ sessions[sessionId].userId = userId

\* the placeholder: "For now, just return true for testing purposes"
checkSessionParticipant(sessionId, userId) == TRUE

createInterviewQuestion(ru, session_id) ==
  /\ Take(ru)
  /\ IF ru.role # "admin"
       THEN Respond("createInterviewQuestion", 403, ru, 0) /\ questions' = questions
       ELSE LET id == FreshId(questions, NoQuestion) IN
            /\ HasRoom("questions")
            /\ questions' = [questions EXCEPT ![id] =
                 [session_id |-> session_id, submittedAnswer |-> "", feedback |-> ""]]
            /\ Reply("createInterviewQuestion", 201, ru, id, "", {id})
  /\ UNCHANGED <<users, authVars, sessions, submissions, problems, tags, stats, solved, calls>>

getAllInterviewQuestions(ru) ==
  /\ Take(ru)
  /\ IF ru.role # "admin"
       THEN Respond("getAllInterviewQuestions", 403, ru, 0)
       ELSE Reply("getAllInterviewQuestions", 200, ru, 0, "", Docs(questions, NoQuestion))
  /\ UNCHANGED <<users, authVars, storeVars>>

getQuestionsBySessionId(ru, sessionId) ==
  /\ Take(ru)
  /\ IF ru.role # "admin" /\ ~checkSessionParticipant(sessionId, ru.id)
       THEN Respond("getQuestionsBySessionId", 403, ru, sessionId)
       ELSE Reply("getQuestionsBySessionId", 200, ru, sessionId, "",
                  {i \in Docs(questions, NoQuestion) : questions[i].session_id = sessionId})
  /\ UNCHANGED <<users, authVars, storeVars>>

getInterviewQuestionById(ru, id) ==
  /\ Take(ru)
  /\ IF ~Found(questions, NoQuestion, id)
       THEN Respond("getInterviewQuestionById", 404, ru, id)
       ELSE IF ru.role # "admin" /\ ~checkSessionParticipant(questions[id].session_id, ru.id)
       THEN Respond("getInterviewQuestionById", 403, ru, id)
       ELSE Reply("getInterviewQuestionById", 200, ru, id, "", {id})
  /\ UNCHANGED <<users, authVars, storeVars>>

submitAnswer(ru, id, submittedAnswer) ==
  /\ Take(ru)
  /\ IF ~Found(questions, NoQuestion, id)
       THEN Reply("submitAnswer", 404, ru, id, submittedAnswer, {}) /\ questions' = questions
       ELSE IF ~checkSessionParticipant(questions[id].session_id, ru.id)
       THEN Reply("submitAnswer", 403, ru, id, submittedAnswer, {}) /\ questions' = questions
       ELSE /\ questions' = [questions EXCEPT ![id].submittedAnswer = submittedAnswer]
            /\ Reply("submitAnswer", 200, ru, id, submittedAnswer, {id})
  /\ UNCHANGED <<users, authVars, sessions, submissions, problems, tags, stats, solved, calls>>

provideFeedback(ru, id, feedback) ==
  /\ Take(ru)
  /\ IF ru.role # "admin"
       THEN Respond("provideFeedback", 403, ru, id) /\ questions' = questions
       ELSE IF ~Found(questions, NoQuestion, id)
       THEN Respond("provideFeedback", 404, ru, id) /\ questions' = questions
       ELSE /\ questions' = [questions EXCEPT ![id].feedback = feedback]
            /\ Reply("provideFeedback", 200, ru, id, "", {id})
  /\ UNCHANGED <<users, authVars, sessions, submissions, problems, tags, stats, solved, calls>>

deleteInterviewQuestion(ru, id) ==
  /\ Take(ru)
  /\ IF ru.role # "admin"
       THEN Respond("deleteInterviewQuestion", 403, ru, id) /\ questions' = questions
       ELSE IF ~Found(questions, NoQuestion, id)
       THEN Respond("deleteInterviewQuestion", 404, ru, id) /\ questions' = questions
       ELSE /\ questions' = [questions EXCEPT ![id] = NoQuestion]
            /\ Respond("deleteInterviewQuestion", 200, ru, id)
  /\ UNCHANGED <<users, authVars, sessions, submissions, problems, tags, stats, solved, calls>>

deleteQuestionsBySessionId(ru, sessionId) ==
  /\ Take(ru)
  /\ IF ru.role # "admin"
       THEN Respond("deleteQuestionsBySessionId", 403, ru, sessionId) /\ questions' = questions
       ELSE /\ questions' = [i \in DOMAIN questions |->
                 IF questions[i].session_id = sessionId THEN NoQuestion ELSE questions[i]]
            /\ Respond("deleteQuestionsBySessionId", 200, ru, sessionId)
  /\ UNCHANGED <<users, authVars, sessions, submissions, problems, tags, stats, solved, calls>>

----------------------------------------------------------------------------
(* Submission controller *)

createSubmission(ru, problemId) ==
  /\ Take(ru)
  /\ HasRoom("submissions")
  /\ LET id == FreshId(submissions, NoSubmission) IN
       /\ submissions' = [submissions EXCEPT ![id] =
            [userId |-> ru.id, problemId |-> problemId, status |-> "Pending"]]
       /\ Reply("createSubmission", 201, ru, id, "", {id})
  /\ UNCHANGED <<users, authVars, sessions, questions, problems, tags, stats, solved, calls>>

getAllSubmissions(ru) ==
  /\ Take(ru)
  /\ IF ru.role # "admin"
       THEN Respond("getAllSubmissions", 403, ru, 0)
       ELSE Reply("getAllSubmissions", 200, ru, 0, "", Docs(submissions, NoSubmission))
  /\ UNCHANGED <<users, authVars, storeVars>>

\* The submission is read with populate("userId"): submission.userId is the
\* owner's document or null, and submission.userId._id its id.
getSubmissionById(ru, id) ==
  /\ Take(ru)
  /\ IF ~Found(submissions, NoSubmission, id)
       THEN Respond("getSubmissionById", 404, ru, id)
       ELSE IF ru.role # "admin"
       THEN IF ~Populated(submissions[id].userId)
              THEN Respond("getSubmissionById", 500, ru, id)
              ELSE IF IdString(submissions[id].userId) # IdString(ru.id)
              THEN Respond("getSubmissionById", 403, ru, id)
              ELSE Reply("getSubmissionById", 200, ru, id, "", {id})
       ELSE Reply("getSubmissionById", 200, ru, id, "", {id})
  /\ UNCHANGED <<users, authVars, storeVars>>

getSubmissionsByUserId(ru, userId) ==
  /\ Take(ru)
  /\ IF ru.role # "admin" /\ IdString(userId) # IdString(ru.id)
       THEN Respond("getSubmissionsByUserId", 403, ru, userId)
       ELSE Reply("getSubmissionsByUserId", 200, ru, userId, "",
                  {i \in Docs(submissions, NoSubmission) : submissions[i].userId = userId})
  /\ UNCHANGED <<users, authVars, storeVars>>

updateSubmissionStatus(ru, id, status) ==
  /\ Take(ru)
  /\ IF ru.role # "admin"
       THEN Respond("updateSubmissionStatus", 403, ru, id) /\ submissions' = submissions
       ELSE IF ~Found(submissions, NoSubmission, id)
       THEN Respond("updateSubmissionStatus", 404, ru, id) /\ submissions' = submissions
       ELSE /\ submissions' = [submissions EXCEPT ![id].status = status]
            /\ Reply("updateSubmissionStatus", 200, ru, id, "", {id})
  /\ UNCHANGED <<users, authVars, sessions, questions, problems, tags, stats, solved, calls>>

deleteSubmission(ru, id) ==
  /\ Take(ru)
  /\ IF ru.role # "admin"
       THEN Respond("deleteSubmission", 403, ru, id) /\ submissions' = submissions
       ELSE IF ~Found(submissions, NoSubmission, id)
       THEN Respond("deleteSubmission", 404, ru, id) /\ submissions' = submissions
       ELSE /\ submissions' = [submissions EXCEPT ![id] = NoSubmission]
            /\ Respond("deleteSubmission", 200, ru, id)
  /\ UNCHANGED <<users, authVars, sessions, questions, problems, tags, stats, solved, calls>>

getSubmissionsByProblemId(ru, problemId) ==
  /\ Take(ru)
  /\ IF ru.role # "admin"
       THEN Respond("getSubmissionsByProblemId", 403, ru, problemId)
       ELSE Reply("getSubmissionsByProblemId", 200, ru, problemId, "",
                  {i \in Docs(submissions, NoSubmission) : submissions[i].problemId = problemId})
  /\ UNCHANGED <<users, authVars, storeVars>>

----------------------------------------------------------------------------
(* Problem controller *)

\* creatorId is req.user._id; the body's other fields are the problem's text
createProblem(ru, title) ==
  /\ Take(ru)
  /\ HasRoom("problems")
  /\ LET id == FreshId(problems, NoProblem) IN
       /\ problems' = [problems EXCEPT ![id] =
            [creatorId |-> ru.id, approved |-> FALSE, title |-> title]]
       /\ Reply("createProblem", 201, ru, id, "", {id})
  /\ UNCHANGED <<users, authVars, sessions, questions, submissions, tags, stats, solved, calls>>

getAllProblems(ru) ==
  /\ Take(ru)
  /\ Reply("getAllProblems", 200, ru, 0, "", Docs(problems, NoProblem))
  /\ UNCHANGED <<users, authVars, storeVars>>

getProblemById(ru, id) ==
  /\ Take(ru)
  /\ IF ~Found(problems, NoProblem, id)
       THEN Respond("getProblemById", 404, ru, id)
       ELSE Reply("getProblemById", 200, ru, id, "", {id})
  /\ UNCHANGED <<users, authVars, storeVars>>

\* findByIdAndUpdate(id, req.body): every field the body carries is written
\* (creatorId 0, approved "", title Absent: not in the body)
ProblemUpdate(p, updates) ==
  [creatorId |-> IF updates.creatorId # 0 THEN updates.creatorId ELSE p.creatorId,
   approved  |-> IF updates.approved # Absent THEN updates.approved = "true" ELSE p.approved,
   title     |-> IF updates.title # Absent THEN updates.title ELSE p.title]

\* an update without the creator-or-admin gate
updateProblemUngated(ru, id, updates) ==
  /\ Take(ru)
  /\ IF ~Found(problems, NoProblem, id)
       THEN Respond("updateProblem", 404, ru, id) /\ problems' = problems
       ELSE /\ problems' = [problems EXCEPT ![id] = ProblemUpdate(problems[id], updates)]
            /\ Reply("updateProblem", 200, ru, id, "", {id})
  /\ UNCHANGED <<users, authVars, sessions, questions, submissions, tags, stats, solved, calls>>

updateProblem(ru, id, updates) ==
  /\ Take(ru)
  /\ IF ~Found(problems, NoProblem, id)
       THEN Respond("updateProblem", 404, ru, id) /\ problems' = problems
       ELSE IF IdString(problems[id].creatorId) # IdString(ru.id) /\ ru.role # "admin"
       THEN Respond("updateProblem", 403, ru, id) /\ problems' = problems
       ELSE /\ problems' = [problems EXCEPT ![id] = ProblemUpdate(problems[id], updates)]
            /\ Reply("updateProblem", 200, ru, id, "", {id})
  /\ UNCHANGED <<users, authVars, sessions, questions, submissions, tags, stats, solved, calls>>

\* a delete without the creator-or-admin gate
deleteProblemUngated(ru, id) ==
  /\ Take(ru)
  /\ IF ~Found(problems, NoProblem, id)
       THEN Respond("deleteProblem", 404, ru, id) /\ problems' = problems
       ELSE /\ problems' = [problems EXCEPT ![id] = NoProblem]
            /\ Respond("deleteProblem", 200, ru, id)
  /\ UNCHANGED <<users, authVars, sessions, questions, submissions, tags, stats, solved, calls>>

deleteProblem(ru, id) ==
  /\ Take(ru)
  /\ IF ~Found(problems, NoProblem, id)
       THEN Respond("deleteProblem", 404, ru, id) /\ problems' = problems
       ELSE IF IdString(problems[id].creatorId) # IdString(ru.id) /\ ru.role # "admin"
       THEN Respond("deleteProblem", 403, ru, id) /\ problems' = problems
       ELSE /\ problems' = [problems EXCEPT ![id] = NoProblem]
            /\ Respond("deleteProblem", 200, ru, id)
  /\ UNCHANGED <<users, authVars, sessions, questions, submissions, tags, stats, solved, calls>>

bulkDeleteProblems(ru, problemIds) ==
  /\ Take(ru)
  /\ IF ru.role # "admin"
       THEN Respond("bulkDeleteProblems", 403, ru, 0) /\ problems' = problems
       ELSE IF problemIds = {}
       THEN Respond("bulkDeleteProblems", 400, ru, 0) /\ problems' = problems
       ELSE /\ problems' = [i \in DOMAIN problems |->
                 IF i \in problemIds THEN NoProblem ELSE problems[i]]
            /\ Respond("bulkDeleteProblems", 200, ru, 0)
  /\ UNCHANGED <<users, authVars, sessions, questions, submissions, tags, stats, solved, calls>>

approveProblem(ru, id) ==
  /\ Take(ru)
  /\ IF ru.role # "admin"
       THEN Respond("approveProblem", 403, ru, id) /\ problems' = problems
       ELSE IF ~Found(problems, NoProblem, id)
       THEN Respond("approveProblem", 404, ru, id) /\ problems' = problems
       ELSE /\ problems' = [problems EXCEPT ![id].approved = TRUE]
            /\ Reply("approveProblem", 200, ru, id, "", {id})
  /\ UNCHANGED <<users, authVars, sessions, questions, submissions, tags, stats, solved, calls>>

getAllProblemsAdmin(ru) ==
  /\ Take(ru)
  /\ IF ru.role # "admin"
       THEN Respond("getAllProblemsAdmin", 403, ru, 0)
       ELSE Reply("getAllProblemsAdmin", 200, ru, 0, "", Docs(problems, NoProblem))
  /\ UNCHANGED <<users, authVars, storeVars>>

----------------------------------------------------------------------------
(* Suspended handlers.  createProblemTag, getUserStats and                 *)
(* incrementProblemsSolved await a read of the store, decide, and then      *)
(* await a write: other requests run between the two.                       *)

Undefined == -1            \* a numeric body field the request does not carry

NoDouble == [m |-> 0, e |-> 0]

NoStats == [userId |-> 0, problemsSolved |-> 0, averageScore |-> NoDouble,
            timeSpent |-> 0, studyPlan |-> ""]

\* what a suspended handler holds: its request, and the document its read returned
Call(op, ru, key, tag, seen, doc, score, time) ==
  [op |-> op, ru |-> ru, key |-> key, tag |-> tag, seen |-> seen, doc |-> doc,
   score |-> score, time |-> time]

CanSuspend == BagCardinality(calls) < MaxCalls
Suspend(call) == calls' = calls (+) SetToBag({call})
Resume(call) == BagIn(call, calls) /\ calls' = calls (-) SetToBag({call})
Suspended(op) == {c \in BagToSet(calls) : c.op = op}

----------------------------------------------------------------------------
(* ProblemTag controller *)

TagIds == 1..MaxTags
NoTag == [problemId |-> 0, tag |-> ""]

\* a lookup that finds nothing
existingTagNever(problemId, tag) == FALSE

\* ProblemTag.findOne({ problemId, tag })
existingTag(problemId, tag) ==
  \E i \in TagIds : tags[i] = [problemId |-> problemId, tag |-> tag]

TagsOfProblem(problemId) == {i \in TagIds : tags[i] # NoTag /\ tags[i].problemId = problemId}

createProblemTag(ru, problemId, tag) ==
  /\ Take(ru)
  /\ IF ru.role # "admin"
       THEN Reply("createProblemTag", 403, ru, problemId, tag, {}) /\ calls' = calls
       ELSE IF existingTag(problemId, tag)
       THEN Reply("createProblemTag", 400, ru, problemId, tag, {}) /\ calls' = calls
       ELSE /\ CanSuspend
            /\ Cardinality(Docs(tags, NoTag)) + BagCardinality(calls) < MaxTags
            /\ Suspend(Call("createProblemTag", ru, problemId, tag, 0, NoStats, 0, 0))
            /\ Reply("createProblemTag", 0, ru, problemId, tag, {})
  /\ UNCHANGED <<users, authVars, sessions, questions, submissions, problems,
                 tags, stats, solved>>

\* a collection without unique key
TagKeyTakenNever(problemId, tag) == FALSE

\* The ProblemTag schema (models/ProblemTagModel.js): records are unique per
\* (problemId, tag), the store refuses the insert of a second record for a pair
TagKeyTaken(problemId, tag) ==
  \E i \in TagIds : tags[i] = [problemId |-> problemId, tag |-> tag]

\* newProblemTag.save() and the 201 of createProblemTag; a save that the
\* store refuses throws, and the handler's catch answers 500
createProblemTagSave(call) ==
  /\ call.op = "createProblemTag"
  /\ Resume(call)
  /\ IF TagKeyTaken(call.key, call.tag)
       THEN /\ tags' = tags
            /\ Reply("createProblemTag", 500, call.ru, call.key, call.tag, {})
       ELSE /\ tags' = [tags EXCEPT ![FreshId(tags, NoTag)] =
                          [problemId |-> call.key, tag |-> call.tag]]
            /\ Reply("createProblemTag", 201, call.ru, call.key, call.tag, {FreshId(tags, NoTag)})
  /\ UNCHANGED <<users, authVars, reqs, sessions, questions, submissions, problems,
                 stats, solved>>

getAllProblemTags(ru) ==
  /\ Take(ru)
  /\ IF ru.role # "admin"
       THEN Respond("getAllProblemTags", 403, ru, 0)
       ELSE Reply("getAllProblemTags", 200, ru, 0, "", Docs(tags, NoTag))
  /\ UNCHANGED <<users, authVars, storeVars>>

\* a read of a problem's tags behind the admin gate of getAllProblemTags
getTagsByProblemIdAdminOnly(ru, problemId) ==
  /\ Take(ru)
  /\ IF ru.role # "admin"
       THEN Respond("getTagsByProblemId", 403, ru, problemId)
       ELSE Reply("getTagsByProblemId", 200, ru, problemId, "", TagsOfProblem(problemId))
  /\ UNCHANGED <<users, authVars, storeVars>>

getTagsByProblemId(ru, problemId) ==
  /\ Take(ru)
  /\ Reply("getTagsByProblemId", 200, ru, problemId, "", TagsOfProblem(problemId))
  /\ UNCHANGED <<users, authVars, storeVars>>

getProblemsByTag(ru, tag) ==
  /\ Take(ru)
  /\ Reply("getProblemsByTag", 200, ru, 0, tag,
           {i \in TagIds : tags[i] # NoTag /\ tags[i].tag = tag})
  /\ UNCHANGED <<users, authVars, storeVars>>

deleteProblemTag(ru, id) ==
  /\ Take(ru)
  /\ IF ru.role # "admin"
       THEN Respond("deleteProblemTag", 403, ru, id) /\ tags' = tags
       ELSE IF ~Found(tags, NoTag, id)
       THEN Respond("deleteProblemTag", 404, ru, id) /\ tags' = tags
       ELSE /\ tags' = [tags EXCEPT ![id] = NoTag]
            /\ Respond("deleteProblemTag", 200, ru, id)
  /\ UNCHANGED <<users, authVars, sessions, questions, submissions, problems,
                 stats, solved, calls>>

deleteTagsByProblemId(ru, problemId) ==
  /\ Take(ru)
  /\ IF ru.role # "admin"
       THEN Respond("deleteTagsByProblemId", 403, ru, problemId) /\ tags' = tags
       ELSE /\ tags' = [i \in TagIds |-> IF i \in TagsOfProblem(problemId) THEN NoTag ELSE tags[i]]
            /\ Reply("deleteTagsByProblemId", 200, ru, problemId, "", TagsOfProblem(problemId))
  /\ UNCHANGED <<users, authVars, sessions, questions, submissions, problems,
                 stats, solved, calls>>

----------------------------------------------------------------------------
(* Numbers.  averageScore is a JavaScript Number: a binary floating-point  *)
(* value m * 2^e whose significand m has a fixed number of bits, every      *)
(* operation rounding its exact result to the nearest such value, ties to   *)
(* the even significand.  The format of the model has MantissaBits bits     *)
(* (binary64 has 53).                                                       *)

RECURSIVE Normal(_, _, _)
\* the nearest value of the format to n / d * 2^e, for n >= 0 and d > 0
Normal(n, d, e) ==
  IF n = 0 THEN NoDouble
  ELSE IF n >= d * 2^MantissaBits THEN Normal(n, 2 * d, e + 1)
  ELSE IF n < d * 2^(MantissaBits - 1) THEN Normal(2 * n, d, e - 1)
  ELSE LET q == n \div d
           r == n % d
           m == IF 2 * r > d \/ (2 * r = d /\ q % 2 = 1) THEN q + 1 ELSE q
       IN  IF m = 2^MantissaBits
             THEN [m |-> 2^(MantissaBits - 1), e |-> e + 1]
             ELSE [m |-> m, e |-> e]

\* x = Num(x) / Den(x)
Num(x) == IF x.e >= 0 THEN x.m * 2^(x.e) ELSE x.m
Den(x) == IF x.e >= 0 THEN 1 ELSE 2^(0 - x.e)

ToNumber(k) == Normal(k, 1, 0)                          \* the Number of integer k
Times(x, k) == Normal(Num(x) * k, Den(x), 0)            \* x * k
Plus(x, k)  == Normal(Num(x) + k * Den(x), Den(x), 0)   \* x + k
Over(x, k)  == Normal(Num(x), Den(x) * k, 0)            \* x / k

----------------------------------------------------------------------------
(* UserStats controller *)

\* the userId of the path: the handlers of one user's statistics touch no
\* other user's
StatsUsers == {1}
StatsIds == 1..(MaxCalls + 1)

\* new UserStats({ userId }): the schema's defaults
DefaultStats(userId) == [NoStats EXCEPT !.userId = userId]

\* UserStats.findOne({ userId }): the _id of the first match, or 0
findOneStats(userId) ==
  IF \E i \in StatsIds : stats[i].userId = userId
    THEN CHOOSE i \in StatsIds : /\ stats[i].userId = userId
                                 /\ \A j \in StatsIds : stats[j].userId = userId => i <= j
    ELSE 0

\* a collection without unique key
StatsKeyTakenNever(userId) == FALSE

\* The UserStats schema (models/UserStatsModel.js): the collection is keyed
\* 1:1 by userId, the store refuses the insert of a second record for a user
StatsKeyTaken(userId) == \E i \in StatsIds : stats[i].userId = userId

\* the history of a user's record, for as long as no other handler than
\* incrementProblemsSolved has written it since it did not exist: how many
\* incrementProblemsSolved calls were answered 200, and the sum of their scores
NoHistory == [n |-> 0, sum |-> 0]
Broken == [n |-> -1, sum |-> 0]

Break(userId) == solved' = [solved EXCEPT ![userId] = Broken]

\* const { scoreIncrement = 0, timeSpent = 0 } = req.body
Default(x) == IF x = Undefined THEN 0 ELSE x

\* an increment that averages the old average with the new score
StatsAfterIncrementHalving(doc, scoreIncrement, timeSpent) ==
  [problemsSolved |-> doc.problemsSolved + 1,
   timeSpent      |-> doc.timeSpent + timeSpent,
   averageScore   |-> Over(Plus(doc.averageScore, scoreIncrement), 2)]

\* the fields incrementProblemsSolved assigns to the record that it read
StatsAfterIncrement(doc, scoreIncrement, timeSpent) ==
  LET totalScoreBefore == Times(doc.averageScore, doc.problemsSolved)
      newProblemCount  == doc.problemsSolved + 1
      newAverageScore  == Over(Plus(totalScoreBefore, scoreIncrement), newProblemCount)
  IN  [problemsSolved |-> newProblemCount,
       timeSpent      |-> doc.timeSpent + timeSpent,
       averageScore   |-> newAverageScore]

getUserStats(ru, userId) ==
  /\ Take(ru)
  /\ IF findOneStats(userId) # 0
       THEN /\ Reply("getUserStats", 200, ru, userId, "", {findOneStats(userId)})
            /\ calls' = calls
       ELSE /\ CanSuspend
            /\ Suspend(Call("getUserStats", ru, userId, "", 0, NoStats, 0, 0))
            /\ Reply("getUserStats", 0, ru, userId, "", {})
  /\ UNCHANGED <<users, authVars, sessions, questions, submissions, problems,
                 tags, stats, solved>>

\* userStats.save() of the record getUserStats made, and its 200
getUserStatsSave(call) ==
  /\ call.op = "getUserStats"
  /\ Resume(call)
  /\ IF StatsKeyTaken(call.key)
       THEN /\ UNCHANGED <<stats, solved>>
            /\ Reply("getUserStats", 500, call.ru, call.key, "", {})
       ELSE /\ stats' = [stats EXCEPT ![FreshId(stats, NoStats)] = DefaultStats(call.key)]
            /\ Break(call.key)
            /\ Reply("getUserStats", 200, call.ru, call.key, "", {FreshId(stats, NoStats)})
  /\ UNCHANGED <<users, authVars, reqs, sessions, questions, submissions, problems, tags>>

\* findOneAndUpdate({ userId }, update, { upsert: true }): the _id of the
\* document the update is applied to, and the document before the update
UpsertId(userId) ==
  IF findOneStats(userId) # 0 THEN findOneStats(userId) ELSE FreshId(stats, NoStats)
UpsertDoc(userId) ==
  IF findOneStats(userId) # 0 THEN stats[findOneStats(userId)] ELSE DefaultStats(userId)

updateUserStats(ru, userId, updates) ==
  /\ Take(ru)
  /\ stats' = [stats EXCEPT ![UpsertId(userId)] =
                 [UpsertDoc(userId) EXCEPT !.problemsSolved = updates.problemsSolved,
                                           !.timeSpent = updates.timeSpent]]
  /\ Break(userId)
  /\ Reply("updateUserStats", 200, ru, userId, "", {})
  /\ UNCHANGED <<users, authVars, sessions, questions, submissions, problems, tags, calls>>

incrementProblemsSolved(ru, userId, body) ==
  LET id == findOneStats(userId) IN
  /\ Take(ru)
  /\ CanSuspend
  /\ id # 0 => stats[id].problemsSolved < MaxSolved
  /\ Suspend(Call("incrementProblemsSolved", ru, userId, "", id,
                  IF id = 0 THEN NoStats ELSE stats[id],
                  Default(body.scoreIncrement), Default(body.timeSpent)))
  /\ Reply("incrementProblemsSolved", 0, ru, userId, "", {})
  /\ UNCHANGED <<users, authVars, sessions, questions, submissions, problems, tags,
                 stats, solved>>

\* the fields of the record as the save of incrementProblemsSolved leaves them
Incremented(call) ==
  LET new == [DefaultStats(call.key) EXCEPT !.problemsSolved = 1,
                                            !.timeSpent = call.time,
                                            !.averageScore = ToNumber(call.score)]
      set == StatsAfterIncrement(call.doc, call.score, call.time)
  IN  IF call.seen = 0
        THEN new
        ELSE [stats[call.seen] EXCEPT !.problemsSolved = set.problemsSolved,
                                      !.timeSpent = set.timeSpent,
                                      !.averageScore = set.averageScore]

\* an increment that the store applies to the record as it is at the write
incrementProblemsSolvedSaveAtomic(call) ==
  LET id  == IF call.seen = 0 THEN FreshId(stats, NoStats) ELSE call.seen
      set == StatsAfterIncrement(stats[id], call.score, call.time)
  IN
  /\ call.op = "incrementProblemsSolved"
  /\ Resume(call)
  /\ IF call.seen = 0 /\ StatsKeyTaken(call.key)
       THEN /\ UNCHANGED <<stats, solved>>
            /\ Reply("incrementProblemsSolved", 500, call.ru, call.key, "", {})
       ELSE /\ stats' = IF call.seen = 0
                          THEN [stats EXCEPT ![id] = Incremented(call)]
                          ELSE [stats EXCEPT ![id].problemsSolved = set.problemsSolved,
                                             ![id].timeSpent = set.timeSpent,
                                             ![id].averageScore = set.averageScore]
            /\ solved' = IF solved[call.key] = Broken
                           THEN solved
                           ELSE [solved EXCEPT ![call.key] =
                                   [n |-> @.n + 1, sum |-> @.sum + call.score]]
            /\ Reply("incrementProblemsSolved", 200, call.ru, call.key, "", {id})
  /\ UNCHANGED <<users, authVars, reqs, sessions, questions, submissions, problems, tags>>

\* userStats.save() of incrementProblemsSolved, and its 200: an insert when
\* the read found no record, else an update, by _id, of the fields assigned
\* to the record that was read
incrementProblemsSolvedSave(call) ==
  LET id == IF call.seen = 0 THEN FreshId(stats, NoStats) ELSE call.seen IN
  /\ call.op = "incrementProblemsSolved"
  /\ Resume(call)
  /\ IF call.seen = 0 /\ StatsKeyTaken(call.key)
       THEN /\ UNCHANGED <<stats, solved>>
            /\ Reply("incrementProblemsSolved", 500, call.ru, call.key, "", {})
       ELSE /\ stats' = [stats EXCEPT ![id] = Incremented(call)]
            /\ solved' = IF solved[call.key] = Broken
                           THEN solved
                           ELSE [solved EXCEPT ![call.key] =
                                   [n |-> @.n + 1, sum |-> @.sum + call.score]]
            /\ Reply("incrementProblemsSolved", 200, call.ru, call.key, "", {id})
  /\ UNCHANGED <<users, authVars, reqs, sessions, questions, submissions, problems, tags>>

\* a study plan that only its user may write
updateStudyPlanOwnerOnly(ru, userId, studyPlan) ==
  /\ Take(ru)
  /\ IF IdString(userId) # IdString(ru.id)
       THEN /\ Reply("updateStudyPlan", 403, ru, userId, studyPlan, {})
            /\ UNCHANGED <<stats, solved>>
       ELSE IF ~Truthy(studyPlan)
       THEN /\ Reply("updateStudyPlan", 400, ru, userId, studyPlan, {})
            /\ UNCHANGED <<stats, solved>>
       ELSE /\ stats' = [stats EXCEPT ![UpsertId(userId)] =
                           [UpsertDoc(userId) EXCEPT !.studyPlan = studyPlan]]
            /\ Break(userId)
            /\ Reply("updateStudyPlan", 200, ru, userId, studyPlan, {})
  /\ UNCHANGED <<users, authVars, sessions, questions, submissions, problems, tags, calls>>

updateStudyPlan(ru, userId, studyPlan) ==
  /\ Take(ru)
  /\ IF ~Truthy(studyPlan)
       THEN /\ Reply("updateStudyPlan", 400, ru, userId, studyPlan, {})
            /\ UNCHANGED <<stats, solved>>
       ELSE /\ stats' = [stats EXCEPT ![UpsertId(userId)] =
                           [UpsertDoc(userId) EXCEPT !.studyPlan = studyPlan]]
            /\ Break(userId)
            /\ Reply("updateStudyPlan", 200, ru, userId, studyPlan, {})
  /\ UNCHANGED <<users, authVars, sessions, questions, submissions, problems, tags, calls>>

\* Time passes.  Nothing in the program runs on a timer, so the clock is read
\* only at the instants where a token is signed or its expiry can be told apart.
Instants == {0} \cup ((TokenLifetime - 1)..MaxTime)

Tick(t) ==
  /\ t \in Instants /\ t > now
  /\ now' = t
  /\ res' = NoRes
  /\ UNCHANGED <<users, issued, loggedOut, reqs, storeVars>>

----------------------------------------------------------------------------
(* Initial states *)

\* The credential store of a deployment: no handler creates the first
\* administrator or an interviewer, they are seeded.
SeedUsers == << [role |-> "admin", email |-> "a@x"],
                [role |-> "interviewer", email |-> "b@x"],
                [role |-> "user", email |-> "c@x"] >>

InitUsers == users = [u \in UserIds |-> IF u <= Len(SeedUsers) THEN SeedUsers[u] ELSE NoUser]

InitStores ==
  /\ sessions = [i \in DocIds |-> NoSession]
  /\ questions = [i \in DocIds |-> NoQuestion]
  /\ submissions = [i \in DocIds |-> NoSubmission]
  /\ problems = [i \in DocIds |-> NoProblem]
  /\ tags = [i \in TagIds |-> NoTag]
  /\ stats = [i \in StatsIds |-> NoStats]
  /\ solved = [u \in StatsUsers |-> NoHistory]
  /\ calls = EmptyBag

\* nobody is logged in
InitAuth ==
  /\ InitUsers /\ InitStores
  /\ issued = {} /\ loggedOut = {} /\ now = 0
  /\ reqs = {} /\ res = NoRes

\* what a client can put in the cookie and in the Authorization header
Cookies == {NoToken} \cup (issued \ loggedOut)
Headers == {NoToken, ForgedToken} \cup issued

NextAuth ==
  \/ \E e \in Emails, r \in {"", "admin"} : register(e, r)
  \/ \E e \in Emails, ok \in BOOLEAN : login(e, ok)
  \/ \E c \in issued \ loggedOut : logout(c)
  \/ \E t \in Instants : Tick(t)
  \/ \E c \in Cookies, h \in Headers : verifyToken(c, h)
  \/ \E ru \in reqs : getCurrentUser(ru)
  \/ \E ru \in reqs, id \in UserIds, sp \in PathSpellings : deleteUser(ru, id, sp)

SpecAuth == InitAuth /\ [][NextAuth]_vars

----------------------------------------------------------------------------
(* Access control: every seeded user is logged in and sends its token in the
   Authorization header *)

SeedIds == 1..Len(SeedUsers)

InitAccess ==
  /\ InitUsers /\ InitStores
  /\ now = 0
  /\ issued = {jwtSign(u) : u \in SeedIds}
  /\ loggedOut = {}
  /\ reqs = {} /\ res = NoRes

InFlight == reqs

NewSessions == [interviewType : {"Technical"}, startTime : {1}, endTime : {2, 1},
                userId : {0}]

SessionEdits == [userId : {0}, status : {Absent}, startTime : {0}, endTime : {0},
                 feedback : {Absent, "fb", ""}]

ProblemEdits == [creatorId : {0, 2}, approved : {Absent}, title : {"t2"}]

NextUsersAdmin ==
  \E ru \in InFlight, id \in SeedIds, sp \in PathSpellings : deleteUser(ru, id, sp)

\* the ids that a request path carries: those of the store's slots and one
\* well-formed id that no record has
PathIds == DocIds \cup {MaxRecords + 1}

NextSessions ==
  \/ \E ru \in InFlight, body \in NewSessions : createInterviewSession(ru, body)
  \/ \E ru \in InFlight, id \in PathIds : getInterviewSessionById(ru, id)
  \/ \E ru \in InFlight, id \in PathIds, body \in SessionEdits : updateInterviewSession(ru, id, body)
  \/ \E ru \in InFlight, id \in PathIds : deleteInterviewSession(ru, id)
  \/ \E ru \in InFlight, id \in PathIds, st \in {"Pending", "Done"} : updateSessionStatus(ru, id, st)

NextQuestions ==
  \/ \E ru \in InFlight, sid \in DocIds : createInterviewQuestion(ru, sid)
  \/ \E ru \in InFlight, sid \in DocIds : getQuestionsBySessionId(ru, sid)
  \/ \E ru \in InFlight, id \in PathIds : getInterviewQuestionById(ru, id)
  \/ \E ru \in InFlight, id \in PathIds : submitAnswer(ru, id, "answer")
  \/ \E ru \in InFlight, id \in PathIds : deleteInterviewQuestion(ru, id)

NextSubmissions ==
  \/ \E ru \in InFlight : createSubmission(ru, 1)
  \/ \E ru \in InFlight, id \in PathIds : getSubmissionById(ru, id)
  \/ \E ru \in InFlight, u \in SeedIds : getSubmissionsByUserId(ru, u)
  \/ \E ru \in InFlight, id \in PathIds : updateSubmissionStatus(ru, id, "Accepted")
  \/ \E ru \in InFlight, id \in PathIds : deleteSubmission(ru, id)

NextProblems ==
  \/ \E ru \in InFlight : createProblem(ru, "t1")
  \/ \E ru \in InFlight, id \in PathIds : getProblemById(ru, id)
  \/ \E ru \in InFlight, id \in PathIds, up \in ProblemEdits : updateProblem(ru, id, up)
  \/ \E ru \in InFlight, id \in PathIds : deleteProblem(ru, id)

\* the role lists that a route hands to checkRolePermission
AllowedRoleLists == {{"admin"}, ElevatedRoles}

NextGates ==
  \/ \E ru \in InFlight : verifyAdmin(ru)
  \/ \E ru \in InFlight, allowedRoles \in AllowedRoleLists : checkRolePermission(ru, allowedRoles)

NextAccess ==
  \/ \E h \in issued : verifyToken(NoToken, h)
  \/ NextGates
  \/ NextUsersAdmin
  \/ NextSessions
  \/ NextQuestions
  \/ NextSubmissions
  \/ NextProblems

SpecAccess == InitAccess /\ [][NextAccess]_vars

----------------------------------------------------------------------------
(* Sessions: the bodies that the session handlers accept *)

SessionCreations == [interviewType : {"Technical"}, startTime : {1}, endTime : {2, 1},
                     userId : {0, 1}]

SessionBodies == [userId : {0}, status : {Absent, "Completed", "Done"},
                  startTime : {0, 3, -1}, endTime : {0, 2, 4}, feedback : {Absent}]

NextSessionBodies ==
  \/ \E h \in issued : verifyToken(NoToken, h)
  \/ \E ru \in InFlight, body \in SessionCreations : createInterviewSession(ru, body)
  \/ \E ru \in InFlight, id \in PathIds, body \in SessionBodies : updateInterviewSession(ru, id, body)
  \/ \E ru \in InFlight, id \in PathIds, st \in {"In Progress", "Done"} : updateSessionStatus(ru, id, st)
  \/ \E ru \in InFlight, id \in PathIds : deleteInterviewSession(ru, id)

SpecSessions == InitAccess /\ [][NextSessionBodies]_vars

----------------------------------------------------------------------------
(* Gates: the role gates while an admin changes roles and removes users *)

NextGateRaces ==
  \/ \E h \in issued : verifyToken(NoToken, h)
  \/ NextGates
  \/ \E ru \in InFlight, id \in SeedIds, role \in {"user", "admin"} : updateUserRole(ru, id, role)
  \/ \E ru \in InFlight, id \in SeedIds, sp \in PathSpellings : deleteUser(ru, id, sp)

SpecGates == InitAccess /\ [][NextGateRaces]_vars

----------------------------------------------------------------------------
(* Problems: the bodies that updateProblem accepts, and the approval *)

ProblemBodies == [creatorId : {0, 2}, approved : {Absent, "true"}, title : {Absent, "t2"}]

NextProblemBodies ==
  \/ \E h \in issued : verifyToken(NoToken, h)
  \/ \E ru \in InFlight : createProblem(ru, "t1")
  \/ \E ru \in InFlight, id \in PathIds, up \in ProblemBodies : updateProblem(ru, id, up)
  \/ \E ru \in InFlight, id \in PathIds : approveProblem(ru, id)
  \/ \E ru \in InFlight, id \in PathIds : deleteProblem(ru, id)

SpecProblems == InitAccess /\ [][NextProblemBodies]_vars

----------------------------------------------------------------------------
(* Accounts: registration, login, profile and the administration of roles *)

NextUsers ==
  \/ \E e \in {"c@x", "d@x"} : register(e, "admin")
  \/ \E e \in {"a@x", "c@x"}, ok \in BOOLEAN : login(e, ok)
  \/ \E h \in issued : verifyToken(NoToken, h)
  \/ \E ru \in reqs : updateProfile(ru, users[ru.id].email, "admin")
  \/ \E ru \in reqs, ok \in BOOLEAN : changePassword(ru, ok)
  \/ \E ru \in reqs : getAllUsers(ru)
  \/ \E ru \in reqs : getUserById(ru, ru.id)
  \/ \E ru \in reqs, id \in UserIds, role \in {"user", "admin", "root"} :
       updateUserRole(ru, id, role)
  \/ \E ru \in reqs, id \in UserIds, sp \in PathSpellings : deleteUser(ru, id, sp)

SpecUsers == InitAuth /\ [][NextUsers]_vars

----------------------------------------------------------------------------
(* Problem tags *)

ProblemIds == {1, 2}
TagNames == {"dp", "graph"}

NextTags ==
  \/ \E h \in issued : verifyToken(NoToken, h)
  \/ \E ru \in reqs, p \in ProblemIds, t \in TagNames : createProblemTag(ru, p, t)
  \/ \E call \in BagToSet(calls) : createProblemTagSave(call)
  \/ \E ru \in reqs : getAllProblemTags(ru)
  \/ \E ru \in reqs, p \in ProblemIds : getTagsByProblemId(ru, p)
  \/ \E ru \in reqs, t \in TagNames : getProblemsByTag(ru, t)
  \/ \E ru \in reqs, id \in TagIds : deleteProblemTag(ru, id)
  \/ \E ru \in reqs, p \in ProblemIds : deleteTagsByProblemId(ru, p)

SpecTags == InitAccess /\ [][NextTags]_vars

----------------------------------------------------------------------------
(* User statistics *)

Increments == [scoreIncrement : {Undefined, 10, 20}, timeSpent : {1}]
StatsEdits == [problemsSolved : {0}, timeSpent : {0}]

\* no handler is suspended: the requests come one after the other
Quiet == calls = EmptyBag

NextStats ==
  \/ \E h \in issued : h.id = Len(SeedUsers) /\ verifyToken(NoToken, h)
  \/ \E ru \in reqs, u \in StatsUsers : Quiet /\ getUserStats(ru, u)
  \/ \E call \in BagToSet(calls) : getUserStatsSave(call)
  \/ \E ru \in reqs, u \in StatsUsers, up \in StatsEdits : updateUserStats(ru, u, up)
  \/ \E ru \in reqs, u \in StatsUsers, body \in Increments :
       Quiet /\ incrementProblemsSolved(ru, u, body)
  \/ \E call \in BagToSet(calls) : incrementProblemsSolvedSave(call)
  \/ \E ru \in reqs, u \in StatsUsers, plan \in {"", "plan"} : updateStudyPlan(ru, u, plan)

SpecStats == InitAccess /\ [][NextStats]_vars

----------------------------------------------------------------------------
(* User statistics under concurrent requests: the requests of the user the
   statistics belong to and of another user, in any interleaving, on a record
   that is young *)

StatsRequesters == StatsUsers \cup {Len(SeedUsers)}
RaceIncrements == [scoreIncrement : {10, 20}, timeSpent : {1}]

Young(u) == findOneStats(u) # 0 => stats[findOneStats(u)].problemsSolved < MaxRaceSolved

NextRaces ==
  \/ \E h \in issued : h.id \in StatsRequesters /\ verifyToken(NoToken, h)
  \/ \E ru \in reqs, u \in StatsUsers : getUserStats(ru, u)
  \/ \E call \in BagToSet(calls) : getUserStatsSave(call)
  \/ \E ru \in reqs, u \in StatsUsers, up \in StatsEdits : updateUserStats(ru, u, up)
  \/ \E ru \in reqs, u \in StatsUsers, body \in RaceIncrements :
       Young(u) /\ incrementProblemsSolved(ru, u, body)
  \/ \E call \in BagToSet(calls) : incrementProblemsSolvedSave(call)
  \/ \E ru \in reqs, u \in StatsUsers, plan \in {"", "plan"} : updateStudyPlan(ru, u, plan)

SpecRaces == InitAccess /\ [][NextRaces]_vars

----------------------------------------------------------------------------
(* Properties *)

SessionOps == {"getInterviewSessionById", "updateInterviewSession",
               "deleteInterviewSession", "updateSessionStatus"}
SubmissionOps == {"getSubmissionById", "updateSubmissionStatus", "deleteSubmission"}
ProblemWrites == {"updateProblem", "deleteProblem"}
ProblemOps == ProblemWrites \cup {"getProblemById"}
QuestionOps == {"createInterviewQuestion", "getQuestionsBySessionId",
                "getInterviewQuestionById", "submitAnswer", "deleteInterviewQuestion"}

\* the step is a request of handler set ops, by a requester whose role is not
\* admin, on a stored record of collection coll that another user owns
Stranger(ops, coll, blank, owner) ==
  /\ res'.op \in ops
  /\ Found(coll, blank, res'.id)
  /\ res'.user.role # "admin"
  /\ coll[res'.id][owner] # res'.user.id

SessionOwner == "userId"
SubmissionOwner == "userId"
ProblemOwner == "creatorId"

\* the request was refused and nothing came back
Refused(statuses) == res'.status \in statuses /\ res'.data = {}

\* C1 as stated: whoever is neither admin nor the owner of a Session,
\* Submission or Problem record gets 403 from every read and every write of
\* it, and the record is neither returned nor changed.
C1_StrangersAlwaysForbidden ==
  [][ /\ Stranger(SessionOps, sessions, NoSession, SessionOwner)
        => Refused({403}) /\ sessions' = sessions
      /\ Stranger(SubmissionOps, submissions, NoSubmission, SubmissionOwner)
        => Refused({403}) /\ submissions' = submissions
      /\ Stranger(ProblemOps, problems, NoProblem, ProblemOwner)
        => Refused({403}) /\ problems' = problems ]_vars

\* C1: whoever is neither admin nor the owner is refused every write of a
\* Session, Submission or Problem record and every read of a Session or
\* Submission record, unless, for sessions, the role is interviewer: the answer
\* is 403, or 400 when updateSessionStatus rejects the status value first, or
\* 500 when the requester's or the owner's user record is gone, and the record
\* is neither returned nor changed.  An interviewer reads any session, and
\* getProblemById returns any problem to anybody.
C1_StrangersRefused ==
  [][ /\ Stranger(SessionOps, sessions, NoSession, SessionOwner)
          /\ res'.user.role \notin ElevatedRoles
        => /\ Refused({400, 403, 500}) /\ sessions' = sessions
           /\ res'.status = 400 => res'.op = "updateSessionStatus"
           /\ res'.status = 500
                => ~UserExists(res'.user.id) \/ ~UserExists(sessions[res'.id].userId)
      /\ Stranger({"getInterviewSessionById"}, sessions, NoSession, SessionOwner)
          /\ res'.user.role = "interviewer" /\ UserExists(res'.user.id)
        => res'.status = 200 /\ res'.data = {res'.id}
      /\ Stranger(SubmissionOps, submissions, NoSubmission, SubmissionOwner)
        => /\ Refused({403, 500}) /\ submissions' = submissions
           /\ res'.status = 500 => ~UserExists(submissions[res'.id].userId)
      /\ Stranger(ProblemWrites, problems, NoProblem, ProblemOwner)
        => Refused({403}) /\ problems' = problems
      /\ Stranger({"getProblemById"}, problems, NoProblem, ProblemOwner)
        => res'.status = 200 /\ res'.data = {res'.id} ]_vars

\* a user who is neither elevated nor the owner was refused an update of a session
C1_Witness ==
  /\ res.op = "updateInterviewSession" /\ res.status = 403
  /\ res.user.role = "user"
  /\ Found(sessions, NoSession, res.id)
  /\ sessions[res.id].userId # res.user.id

\* C2: no resource handler of sessions, questions, submissions or problems
\* answers 403 to a requester whose role is admin, whoever owns the record.
C2_AdminNeverForbidden ==
  (/\ res.op \in SessionOps \cup QuestionOps \cup SubmissionOps \cup ProblemOps
   /\ res.user.role = "admin")
    => res.status # 403

\* an admin read a submission that another user owns
C2_Witness ==
  /\ res.op = "getSubmissionById" /\ res.status = 200
  /\ res.user.role = "admin"
  /\ Found(submissions, NoSubmission, res.id)
  /\ submissions[res.id].userId # res.user.id

\* C3: deleteInterviewSession on a stored session removes it when the
\* requester's role is admin and only then; for every other requester, the
\* owner and an interviewer included, it answers 403 and the session stays.
C3_DeleteSessionAdminOnly ==
  [][ (res'.op = "deleteInterviewSession" /\ Found(sessions, NoSession, res'.id)
         /\ UserExists(res'.user.id))
        => IF users[res'.user.id].role = "admin"
             THEN /\ res'.status = 200
                  /\ sessions' = [sessions EXCEPT ![res'.id] = NoSession]
             ELSE /\ res'.status = 403
                  /\ sessions' = sessions ]_vars

\* the owner of a session, who is no admin, was refused its deletion
C3_Witness ==
  /\ res.op = "deleteInterviewSession" /\ res.status = 403
  /\ Found(sessions, NoSession, res.id)
  /\ sessions[res.id].userId = res.user.id

C5_VerifyToken ==
  [][ res'.op = "verifyToken" =>
        LET t == res'.tok IN
        IF t.kind = "none" \/ t.kind = "forged" \/ now >= t.exp \/ ~UserExists(t.id)
          THEN res'.status = 401 /\ res'.user = NoIdentity /\ reqs' = reqs
          ELSE /\ res'.status = 0
               /\ res'.user = [id |-> t.id, role |-> users[t.id].role]
               /\ reqs' = reqs \cup {res'.user} ]_vars

\* the token of a deleted user, still valid, was answered 401
C5_Witness ==
  /\ res.op = "verifyToken" /\ res.status = 401
  /\ res.tok \in issued /\ now < res.tok.exp
  /\ users[res.tok.id] = DeletedUser

\* C6: more than 30 days after register or login signed it, a token fails
\* verification: the request that presents it is answered 401.
C6_TokenExpires ==
  (/\ res.op = "verifyToken"
   /\ res.tok \in issued
   /\ now > res.tok.iat + TokenLifetime)
    => res.status = 401 /\ res.user = NoIdentity

\* the token of a user who still exists was refused for its age alone
C6_Witness ==
  /\ res.op = "verifyToken" /\ res.status = 401
  /\ res.tok \in issued /\ UserExists(res.tok.id)
  /\ now > res.tok.iat + TokenLifetime

\* C7: a token whose cookie logout has cleared, presented in the
\* Authorization header before it expires, still authenticates the request as
\* the user it was issued to, as long as that user exists.
C7_LogoutDoesNotRevoke ==
  (/\ res.op = "verifyToken" /\ res.arg = "header")
    => \A t \in res.data \cap loggedOut :
         (now < t.exp /\ UserExists(t.id))
           => /\ res.status = 0
              /\ res.user = [id |-> t.id, role |-> users[t.id].role]
              /\ res.user \in reqs

\* a logged-out token was replayed in the header and accepted
C7_Witness ==
  /\ res.op = "verifyToken" /\ res.arg = "header" /\ res.status = 0
  /\ res.tok \in loggedOut

\* the record of user u, when there is exactly one
TheStats(u) == stats[findOneStats(u)]

C9_DuplicateTagRejected ==
  [][ (/\ res'.op = "createProblemTag"
       /\ res'.user.role = "admin"
       /\ BagCardinality(calls') >= BagCardinality(calls)
       /\ \E i \in TagIds : tags[i] = [problemId |-> res'.id, tag |-> res'.arg])
        => res'.status = 400 /\ tags' = tags /\ calls' = calls ]_vars

\* an admin's second createProblemTag for a stored pair was answered 400
C9_Witness ==
  /\ res.op = "createProblemTag" /\ res.status = 400
  /\ res.user.role = "admin"
  /\ Cardinality({i \in TagIds : tags[i] = [problemId |-> res.id, tag |-> res.arg]}) = 1

\* C10 as stated: updateUserRole with a role that is neither "user" nor
\* "admin" answers 400 and leaves the stored roles alone.
C10_InvalidRoleIs400 ==
  [][ (res'.op = "updateUserRole" /\ res'.arg \notin {"user", "admin"})
        => res'.status = 400 /\ users' = users ]_vars

\* C10: updateUserRole with a role that is neither "user" nor "admin" leaves
\* the stored roles alone; it answers 400 when the requester's attached role is
\* admin, and 403, before it looks at the role, when it is not.
C10_InvalidRoleRejected ==
  [][ (res'.op = "updateUserRole" /\ res'.arg \notin {"user", "admin"})
        => /\ users' = users
           /\ res'.status = IF res'.user.role = "admin" THEN 400 ELSE 403 ]_vars

\* an admin named an invalid role for an existing user and got 400
C10_Witness ==
  /\ res.op = "updateUserRole" /\ res.status = 400
  /\ res.arg = "root" /\ res.user.role = "admin"
  /\ UserExists(res.id)

\* C11: getInterviewSessionById on a stored session returns it when the
\* requester's role is admin or interviewer or the requester is the session's
\* owner, and answers 403 in the remaining cases (requester and owner both
\* still in the user store).
C11_OwnerReadsSession ==
  [][ (/\ res'.op = "getInterviewSessionById"
       /\ Found(sessions, NoSession, res'.id)
       /\ UserExists(res'.user.id)
       /\ UserExists(sessions[res'.id].userId))
        => IF \/ users[res'.user.id].role \in ElevatedRoles
              \/ sessions[res'.id].userId = res'.user.id
             THEN res'.status = 200 /\ res'.data = {res'.id}
             ELSE res'.status = 403 /\ res'.data = {} ]_vars

\* C12: an updateInterviewSession request whose body carries a feedback field
\* and whose requester is neither admin nor interviewer, the owner of the
\* session included, is answered 403 and leaves the stored feedback as it was.
C12_FeedbackByElevatedOnly ==
  [][ (/\ res'.op = "updateInterviewSession"
       /\ Found(sessions, NoSession, res'.id)
       /\ UserExists(res'.user.id)
       /\ users[res'.user.id].role \notin ElevatedRoles
       /\ res'.arg # Absent)
        => /\ res'.status = 403
           /\ sessions'[res'.id].feedback = sessions[res'.id].feedback ]_vars

C14_ProblemWritesGated ==
  [][ (res'.op \in ProblemWrites /\ Found(problems, NoProblem, res'.id))
        => IF res'.user.role = "admin" \/ problems[res'.id].creatorId = res'.user.id
             THEN /\ res'.status = 200
                  /\ res'.op = "deleteProblem" => problems'[res'.id] = NoProblem
                  /\ res'.op = "updateProblem" => problems'[res'.id].title = "t2"
             ELSE /\ res'.status = 403
                  /\ problems' = problems ]_vars

\* somebody who is neither admin nor the creator was refused the deletion of a problem
C14_Witness ==
  /\ res.op = "deleteProblem" /\ res.status = 403
  /\ res.user.role # "admin"
  /\ Found(problems, NoProblem, res.id)
  /\ problems[res.id].creatorId # res.user.id

TagWrites == {"createProblemTag", "deleteProblemTag", "deleteTagsByProblemId"}

\* what the three tag writes have in common: a requester whose role is not
\* admin is answered 403 and nothing is written or left pending, and the
\* collection changes in no other step than a tag write of an admin
TagWritesAdminOnly ==
  /\ (res'.op \in TagWrites /\ res'.user.role # "admin")
       => res'.status = 403 /\ tags' = tags /\ calls' = calls
  /\ tags' # tags => res'.op \in TagWrites /\ res'.user.role = "admin"

\* what getTagsByProblemId and getProblemsByTag do for every requester
TagReadsByKey ==
  /\ res'.op = "getTagsByProblemId"
       => res'.status = 200 /\ res'.data = TagsOfProblem(res'.id)
  /\ res'.op = "getProblemsByTag"
       => /\ res'.status = 200
          /\ res'.data = {i \in TagIds : tags[i] # NoTag /\ tags[i].tag = res'.arg}

\* C15 as stated: getAllProblemTags, getTagsByProblemId and getProblemsByTag
\* return their data to every requester whatever its role, and the three tag
\* writes succeed for role admin only.
C15_TagReadsUnrestricted ==
  [][ /\ TagReadsByKey
      /\ res'.op = "getAllProblemTags"
           => res'.status = 200 /\ res'.data = Docs(tags, NoTag)
      /\ TagWritesAdminOnly ]_vars

\* C15: getTagsByProblemId and getProblemsByTag return their data to every
\* requester whatever its role; getAllProblemTags returns the tags to role
\* admin and answers 403 to every other role; the three tag writes succeed
\* for role admin only.
C15_TagReadsByKeyUnrestricted ==
  [][ /\ TagReadsByKey
      /\ res'.op = "getAllProblemTags"
           => IF res'.user.role = "admin"
                THEN res'.status = 200 /\ res'.data = Docs(tags, NoTag)
                ELSE res'.status = 403 /\ res'.data = {}
      /\ TagWritesAdminOnly ]_vars

\* a plain user has read the tags of a problem that has some
C15_Witness ==
  /\ res.op = "getTagsByProblemId" /\ res.status = 200
  /\ res.user.role = "user"
  /\ res.data # {} /\ res.data = TagsOfProblem(res.id)

StatsOps == {"getUserStats", "updateUserStats", "incrementProblemsSolved", "updateStudyPlan"}

\* the records of user u
StatsOf(u) == {i \in StatsIds : stats[i].userId = u}

\* the same after the step
StatsAfter(u) == {i \in StatsIds : stats'[i].userId = u}
TheStatsAfter(u) == stats'[CHOOSE i \in StatsAfter(u) : \A j \in StatsAfter(u) : i <= j]

\* C16: the UserStats handlers check neither owner nor role.  Whoever sends
\* the request, the user of the statistics or anybody else, none of them
\* answers 401 or 403, updateUserStats and updateStudyPlan write the record of
\* the userId in the path, getUserStats returns it and incrementProblemsSolved
\* counts on it; the outcome does not depend on the requester.
C16_StatsOpenToAll ==
  [][ res'.op \in StatsOps =>
        /\ res'.status \notin {401, 403}
        /\ res'.op = "updateUserStats"
             => /\ res'.status = 200
                /\ TheStatsAfter(res'.id).problemsSolved = 0
                /\ TheStatsAfter(res'.id).timeSpent = 0
        /\ res'.op = "updateStudyPlan"
             => IF Truthy(res'.arg)
                  THEN res'.status = 200 /\ TheStatsAfter(res'.id).studyPlan = res'.arg
                  ELSE res'.status = 400 /\ stats' = stats
        /\ (res'.op = "getUserStats" /\ res'.status = 200)
             => /\ res'.data = StatsAfter(res'.id)
                /\ res'.data # {}
        /\ (res'.op = "incrementProblemsSolved" /\ res'.status = 200)
             => /\ res'.data = StatsAfter(res'.id)
                /\ TheStatsAfter(res'.id).problemsSolved >= 1 ]_vars

\* a plain user has written the study plan of another user
C16_Witness ==
  /\ res.op = "updateStudyPlan" /\ res.status = 200
  /\ res.user.role = "user" /\ res.user.id # res.id
  /\ StatsOf(res.id) # {}
  /\ TheStats(res.id).studyPlan = res.arg

\* C17: in every interleaving of getUserStats, updateUserStats,
\* incrementProblemsSolved and updateStudyPlan requests the store holds at most
\* one UserStats record per userId, and a record, once created, is never
\* removed.
C17_OneStatsPerUser ==
  [][ /\ \A u \in StatsUsers : Cardinality(StatsAfter(u)) <= 1
      /\ \A i \in StatsIds : stats[i] # NoStats => stats'[i] # NoStats ]_vars

\* two requests found no record for the user and both tried to create one:
\* the second insert was refused and the user has one record
C17_Witness ==
  /\ res.op \in {"getUserStats", "incrementProblemsSolved"} /\ res.status = 500
  /\ Cardinality(StatsOf(res.id)) = 1

\* C18: incrementProblemsSolved writes what it computed from the record it
\* read, whatever the record has become in between: of two requests that read
\* the same record both are answered 200 and the second write replaces the
\* first, problemsSolved grows by 1 and averageScore and timeSpent are those
\* of one request.
C18_IncrementWritesWhatItRead ==
  [][ (res'.op = "incrementProblemsSolved" /\ res'.status = 200)
        => \E c \in Suspended("incrementProblemsSolved") :
             /\ calls' = calls (-) SetToBag({c})
             /\ c.seen # 0 =>
                  /\ stats'[c.seen].problemsSolved = c.doc.problemsSolved + 1
                  /\ stats'[c.seen].timeSpent = c.doc.timeSpent + c.time
                  /\ stats'[c.seen].averageScore =
                       Over(Plus(Times(c.doc.averageScore, c.doc.problemsSolved), c.score),
                            c.doc.problemsSolved + 1) ]_vars

\* incrementProblemsSolved calls, and no other write, have been answered 200
\* one more time than problemsSolved and timeSpent count: an update is lost
C18_Witness ==
  \E u \in StatsUsers :
    /\ res.op = "incrementProblemsSolved" /\ res.status = 200 /\ res.id = u
    /\ solved[u].n >= 2
    /\ TheStats(u).problemsSolved = solved[u].n - 1
    /\ TheStats(u).timeSpent = solved[u].n - 1

\* the records of a (problemId, tag) pair
TagsOfPair(problemId, tag) == {i \in TagIds : tags[i] = [problemId |-> problemId, tag |-> tag]}

\* C19: in every interleaving of createProblemTag requests, two concurrent
\* requests for the same pair included, the store holds at most one ProblemTag
\* record per (problemId, tag).
C19_OneTagPerPair ==
  \A p \in ProblemIds, t \in TagNames : Cardinality(TagsOfPair(p, t)) <= 1

\* two requests for one pair both found it absent: the second save was
\* refused and the pair is stored once
C19_Witness ==
  /\ res.op = "createProblemTag" /\ res.status = 500
  /\ Cardinality(TagsOfPair(res.id, res.arg)) = 1

\* C20: a step that answers 403 -- a handler's or a gate's -- is the request's
\* only response and its last step: it writes no collection and leaves no
\* continuation behind, so the record store is what it was before the request.
C20_DenialWritesNothing ==
  [][res'.status = 403 =>
       /\ UNCHANGED <<users, sessions, questions, submissions, problems, tags, stats>>
       /\ calls' = calls]_vars

\* a user who is neither the creator nor an admin has been refused an update
\* of a stored problem, which still carries its first title
C20_Witness ==
  /\ res.op = "updateProblem" /\ res.status = 403
  /\ Found(problems, NoProblem, res.id)
  /\ problems[res.id].title = "t1"
  /\ problems[res.id].creatorId # res.user.id

\* the record that a request of handler op addresses by id is stored
Addressed(op, id) ==
  \/ op \in SessionOps /\ Found(sessions, NoSession, id)
  \/ op \in QuestionOps /\ Found(questions, NoQuestion, id)
  \/ op \in SubmissionOps /\ Found(submissions, NoSubmission, id)
  \/ op \in ProblemOps /\ Found(problems, NoProblem, id)

\* C21: an identity that a read, update or delete handler of sessions,
\* questions, submissions or problems has just refused with 403 for a stored
\* record gets the same response when it sends the same request for a record
\* that is not stored: a denial does not tell whether the record exists.
C21_DenialHidesExistence ==
  [][ (/\ res.status = 403 /\ Addressed(res.op, res.id)
       /\ res'.op = res.op /\ res'.user = res.user /\ res'.arg = res.arg
       /\ ~Addressed(res'.op, res'.id))
        => res'.status = res.status /\ res'.data = res.data ]_vars

\* C22: createInterviewSession stores every session with status "Pending",
\* and whatever createInterviewSession, updateInterviewSession and
\* updateSessionStatus do afterwards, the status of every stored session is
\* one of Pending, In Progress, Completed.
C22_StatusInRange ==
  [][ /\ \A i \in DocIds :
           Found(sessions', NoSession, i) => sessions'[i].status \in {"Pending", "In Progress", "Completed"}
      /\ (res'.op = "createInterviewSession" /\ res'.status = 201)
           => sessions'[res'.id].status = "Pending" ]_vars

\* an update whose body carried a status has been applied to a session
C22_Witness ==
  /\ res.op = "updateInterviewSession" /\ res.status = 200
  /\ Found(sessions, NoSession, res.id)
  /\ sessions[res.id].status = "Completed"

\* C23: after any sequence of createInterviewSession and updateInterviewSession
\* requests, updates that carry only startTime or only endTime included, every
\* stored session has startTime strictly before endTime.
C23_StartBeforeEnd ==
  \A i \in DocIds :
    Found(sessions, NoSession, i) => sessions[i].startTime < sessions[i].endTime

\* C24: a session that createInterviewSession stores belongs to the identity
\* that made the request, unless that identity's role is admin.
C24_OwnerIsCreator ==
  [][ (/\ res'.op = "createInterviewSession" /\ res'.status = 201
       /\ res'.user.role # "admin")
        => sessions'[res'.id].userId = res'.user.id ]_vars

\* C27: no request of an identity whose role is neither admin nor interviewer
\* changes the status of a stored session, the owner's updateInterviewSession
\* with a status in its body included.
C27_StatusByElevatedOnly ==
  [][ (/\ res'.op \in {"updateInterviewSession", "updateSessionStatus"}
       /\ res'.user.role \notin ElevatedRoles
       /\ UserExists(res'.user.id) /\ users[res'.user.id].role \notin ElevatedRoles)
        => \A i \in DocIds :
             Found(sessions, NoSession, i) => sessions'[i].status = sessions[i].status ]_vars

\* what the gate would decide on the role that verifyToken attached to the
\* request: 0 is continue, 403 is Forbidden
AttachedDecision(ru, listName) ==
  LET allowedRoles == CHOOSE l \in AllowedRoleLists : RoleListName(l) = listName
  IN  IF ru.role \in allowedRoles THEN 0 ELSE 403

\* C25 as stated: whatever updateUserRole and deleteUser requests run between
\* verifyToken and the gate, checkRolePermission decides as a check of the
\* allow-list against the role attached by verifyToken would.
C25_GateAsAttachedRole ==
  [][ res'.op = "checkRolePermission"
        => res'.status = AttachedDecision(res'.user, res'.arg) ]_vars

\* C25: checkRolePermission decides as a check of the allow-list against the
\* attached role would, as long as the identity's user record is still stored
\* with the role it had when verifyToken read it.
C25_GateAsAttachedRoleWhileUnchanged ==
  [][ (/\ res'.op = "checkRolePermission"
       /\ UserExists(res'.user.id) /\ users[res'.user.id].role = res'.user.role)
        => res'.status = AttachedDecision(res'.user, res'.arg) ]_vars

\* the gate let an interviewer through whose record some admin request left
\* alone, after another user's role was changed
C25_Witness ==
  /\ res.op = "checkRolePermission" /\ res.status = 0
  /\ res.user.role = "interviewer" /\ res.arg = RoleListName(ElevatedRoles)
  /\ users[res.user.id].role = "interviewer"
  /\ users[3].role = "admin"

\* C26: only a request of an identity whose role is admin makes a problem
\* approved: no createProblem and no updateProblem of a non-admin turns
\* approved from false to true.
C26_ApprovedByAdminOnly ==
  [][ \A i \in DocIds :
        (~problems[i].approved /\ problems'[i].approved) => res'.user.role = "admin" ]_vars

\* C28: createProblem stores the requester's id as creatorId, and no
\* updateProblem of a non-admin changes the creatorId of a stored problem.
C28_CreatorNeverChanges ==
  [][ /\ (res'.op = "createProblem" /\ res'.status = 201)
           => problems'[res'.id].creatorId = res'.user.id
      /\ (res'.op = "updateProblem" /\ res'.user.role # "admin")
           => \A i \in DocIds :
                Found(problems, NoProblem, i) => problems'[i].creatorId = problems[i].creatorId ]_vars

\* C29: deleteUser never removes the record of the identity that sent the
\* request: a path id that is the requesting admin's own id is answered 400,
\* a requester that is no admin is answered 403, both without any change of
\* the user store, and a record is removed only when an admin addresses
\* another user, who exists.
C29_NoSelfDelete ==
  [][ res'.op = "deleteUser" =>
        /\ users'[res'.user.id] = users[res'.user.id]
        /\ res'.user.role # "admin" => res'.status = 403 /\ users' = users
        /\ (res'.user.role = "admin" /\ res'.id = res'.user.id)
             => res'.status = 400 /\ users' = users
        /\ users' # users
             => /\ res'.user.role = "admin" /\ res'.id # res'.user.id
                /\ UserExists(res'.id) /\ res'.status = 200
                /\ users' = [users EXCEPT ![res'.id] = DeletedUser] ]_vars

====
